---- MODULE Spec2Model ----
(***************************************************************************)
(* gitfs.py: a read-only FUSE view of a git repository.  Every reference   *)
(* refs/X is a directory /X, and below it the tree of its commit.          *)
(*                                                                         *)
(* Python strings are sequences of one-character strings, so that          *)
(* startswith, slicing and split are computed character by character.      *)
(***************************************************************************)
EXTENDS Integers, Sequences, FiniteSets, TLC

(***************************************************************************)
(* Bounds of the model.                                                    *)
(***************************************************************************)
MaxDepth   == 3   \* segments of a relative path inside a snapshot
MaxSize    == 3   \* largest size argument of read
MaxOffset  == 3   \* largest offset argument of read
MaxBlobLen == 2   \* length of the longest blob of the object store

(***************************************************************************)
(* Program constants.                                                      *)
(***************************************************************************)
O_RDONLY  == 0          \* os.O_RDONLY
S_IFDIR   == 16384      \* stat.S_IFDIR = 0040000
WriteBits == 146        \* 0222

Min(a, b) == IF a <= b THEN a ELSE b

(***************************************************************************)
(* Python primitives.                                                      *)
(***************************************************************************)
\* a & b on non-negative integers
RECURSIVE BitAnd(_, _)
BitAnd(a, b) ==
  IF a = 0 \/ b = 0 THEN 0
  ELSE (a % 2) * (b % 2) + 2 * BitAnd(a \div 2, b \div 2)

\* s.startswith(p)
StartsWith(s, p) == Len(p) <= Len(s) /\ SubSeq(s, 1, Len(p)) = p

\* s[i:j] for i, j >= 0: both ends are clipped to len(s)
PySlice(s, i, j) ==
  LET lo == Min(i, Len(s))
      hi == Min(j, Len(s))
  IN  IF hi <= lo THEN <<>> ELSE SubSeq(s, lo + 1, hi)

\* s[i:]
PySliceFrom(s, i) == PySlice(s, i, Len(s))

\* s.split('/', maxsplit); maxsplit = -1 is s.split('/')
RECURSIVE split(_, _)
split(s, maxsplit) ==
  LET idx == {i \in 1..Len(s) : s[i] = "/"}
  IN  IF idx = {} \/ maxsplit = 0 THEN <<s>>
      ELSE LET i == CHOOSE k \in idx : \A j \in idx : k <= j
           IN  <<SubSeq(s, 1, i - 1)>> \o split(SubSeq(s, i + 1, Len(s)), maxsplit - 1)

(***************************************************************************)
(* The repository: the object store (trees and blobs by object id) is      *)
(* fixed; which references exist and which root tree each one's commit     *)
(* has is chosen by Init.                                                  *)
(***************************************************************************)
Byte(k) == 64 + k

BlobIds == {"B0", "B1", "B2", "B3"}
TreeIds == {"T0", "T1", "T2", "T3"}

\* blob.data
BlobData(oid) ==
  CASE oid = "B0" -> <<>>
    [] oid = "B1" -> [k \in 1..1 |-> Byte(k)]
    [] oid = "B2" -> [k \in 1..MaxBlobLen |-> Byte(k)]
    [] oid = "B3" -> [k \in 1..(MaxBlobLen - 1) |-> Byte(10 + k)]

\* tree entries: name -> (filemode, oid).  File modes are git's:
\* 0100644 = 33188, 0100755 = 33261, 0120000 = 40960 (symlink),
\* 0040000 = 16384 (tree), 0160000 = 57344 (gitlink, object not in the store)
Entry(m, o) == [filemode |-> m, oid |-> o]

TreeEntries(oid) ==
  CASE oid = "T0" -> <<>>
    [] oid = "T1" -> (<<"f">> :> Entry(33188, "B2")) @@ (<<"d">> :> Entry(16384, "T2"))
    [] oid = "T2" -> (<<"f">> :> Entry(33261, "B1")) @@ (<<"d">> :> Entry(16384, "T3"))
                     @@ (<<".", "g">> :> Entry(33188, "B0"))
    [] oid = "T3" -> (<<"f">> :> Entry(40960, "B3")) @@ (<<"s">> :> Entry(57344, "C9"))

\* repo[oid] / entry.to_object(): a tree, a blob, or KeyError
ObjType(oid) ==
  IF oid \in TreeIds THEN "tree" ELSE IF oid \in BlobIds THEN "blob" ELSE "missing"

\* qualified reference names the repository may hold
Q(name) == <<"r", "e", "f", "s">> \o name

RefUniverse ==
  { Q(<<"/", "h", "/", "m">>),
    Q(<<"/", "h", "/", "m", "2">>),
    Q(<<"/", "h", "2", "/", "y">>),
    Q(<<"/", "h", "/", "m", "/", "f">>) }

RootTrees == {"T1", "T3"}

TemplateStats ==
  { [st_mode |-> m, st_ino |-> 4711, st_nlink |-> 9, st_size |-> 4096] : m \in {16877, 16895} }

VARIABLES
  references,   \* qualified reference name -> root tree of its commit
  repo_stat,    \* os.lstat(self.repo.path)
  op,           \* the operation in progress, "idle" when none
  args,         \* its arguments
  result        \* what it returned or raised

vars == <<references, repo_stat, op, args, result>>


(***************************************************************************)
(* Results.  An operation returns a value or raises; err is "" on return,  *)
(* the errno name of a FuseOSError, or the name of a Python exception.     *)
(***************************************************************************)
NoStat == <<>>

Returns(st, names, data) ==
  [err |-> "", stat |-> st, names |-> names, data |-> data]

Raises(e) == [err |-> e, stat |-> NoStat, names |-> {}, data |-> <<>>]

(***************************************************************************)
(* copy_stat                                                               *)
(***************************************************************************)
\* variant: the overrides are applied after the write bits are cleared
copy_stat_late_override(st, kwargs) ==
  LET cleared == [st EXCEPT !.st_ino = 0,
                            !.st_mode = st.st_mode - BitAnd(st.st_mode, WriteBits)]
  IN  [f \in DOMAIN cleared |-> IF f \in DOMAIN kwargs THEN kwargs[f] ELSE cleared[f]]

\* m & ~0222 keeps every bit of m that is not in 0222
copy_stat(st, kwargs) ==
  LET replaced == [f \in DOMAIN st |-> IF f \in DOMAIN kwargs THEN kwargs[f] ELSE st[f]]
  IN  [replaced EXCEPT !.st_ino = 0,
                       !.st_mode = replaced.st_mode - BitAnd(replaced.st_mode, WriteBits)]

(***************************************************************************)
(* git_tree_to_direntries, git_tree_find                                   *)
(***************************************************************************)
git_tree_to_direntries(tree) == DOMAIN TreeEntries(tree)

\* t[part] on an object of the store: an entry, KeyError (a tree without
\* that name) or TypeError (a blob is not subscriptable)
GetItem(t, part) ==
  IF ObjType(t) # "tree" THEN [exc |-> "TypeError", entry |-> Entry(0, "")]
  ELSE IF part \notin DOMAIN TreeEntries(t) THEN [exc |-> "KeyError", entry |-> Entry(0, "")]
  ELSE [exc |-> "", entry |-> TreeEntries(t)[part]]

\* entry.to_object(): the object, or KeyError when the store does not hold it
to_object(entry) ==
  IF ObjType(entry.oid) = "missing" THEN [exc |-> "KeyError", obj |-> ""]
  ELSE [exc |-> "", obj |-> entry.oid]

\* reduce(lambda t, part: t[part].to_object() ..., parts, tree): an exception
\* in the lambda leaves the reduce
RECURSIVE Descend(_, _)
Descend(t, parts) ==
  IF parts = <<>> THEN [exc |-> "", obj |-> t]
  ELSE LET e == GetItem(t, Head(parts))
       IN  IF e.exc # "" THEN [exc |-> e.exc, obj |-> ""]
           ELSE LET o == to_object(e.entry)
                IN  IF o.exc # "" THEN o ELSE Descend(o.obj, Tail(parts))

git_tree_find(tree, path) ==
  LET parts == split(path, -1)
      t     == Descend(tree, SubSeq(parts, 1, Len(parts) - 1))
  IN  IF t.exc # "" THEN [exc |-> t.exc, entry |-> Entry(0, "")]
      ELSE LET e == GetItem(t.obj, parts[Len(parts)])
           IN  IF e.exc \in {"TypeError", "KeyError"}
               THEN [exc |-> "ENOENT", entry |-> Entry(0, "")]
               ELSE e

(***************************************************************************)
(* GitFS: the reference namespace                                          *)
(***************************************************************************)
\* self.refs
refs ==
  { PySliceFrom(r, 4) : r \in {q \in DOMAIN references : StartsWith(q, <<"r", "e", "f", "s", "/">>)} }

\* variant: a path is matched against r instead of r + '/'
get_parent_ref_no_separator(path) ==
  LET matches == {r \in refs : StartsWith(path, r)}
  IN  IF Cardinality(matches) # 1 THEN [exc |-> "ENOENT", ref |-> <<>>]
      ELSE [exc |-> "", ref |-> CHOOSE r \in matches : TRUE]

get_parent_ref(path) ==
  LET matches == {r \in refs : StartsWith(path, r \o <<"/">>)}
  IN  IF Cardinality(matches) # 1 THEN [exc |-> "ENOENT", ref |-> <<>>]
      ELSE [exc |-> "", ref |-> CHOOSE r \in matches : TRUE]

get_child_refs(path) == {r \in refs : StartsWith(r, path)}

get_path_children(path) ==
  LET path_len == IF path = <<"/">> THEN 0 ELSE Len(path)
      children == {r \in get_child_refs(path) : Len(r) > path_len}
      pieces(r) == split(PySliceFrom(r, path_len), 2)
  IN  IF \E r \in children : Len(pieces(r)) < 2
      THEN [exc |-> "IndexError", names |-> {}]
      ELSE [exc |-> "", names |-> {pieces(r)[2] : r \in children}]

\* self.get_reference_commit(ref_name).tree
get_reference_commit(ref_name) == references[<<"r", "e", "f", "s">> \o ref_name]


(***************************************************************************)
(* GitFS: the filesystem operations                                        *)
(***************************************************************************)
Hidden(path) == StartsWith(path, <<"/", ".">>)

\* variant: the file's mode is not passed on to copy_stat
getattr_file_template_mode(entry) ==
  copy_stat(repo_stat, [st_size |-> Len(BlobData(entry.oid))])

\* the last three lines of getattr: the path is a stand-alone file
getattr_file(entry) ==
  copy_stat(repo_stat, [st_size |-> Len(BlobData(entry.oid)), st_mode |-> entry.filemode])

getattr(path) ==
  IF Hidden(path) THEN Raises("ENOENT")
  ELSE LET default_stat == copy_stat(repo_stat, <<>>)
       IN  IF get_child_refs(path) # {} THEN Returns(default_stat, {}, <<>>)
           ELSE LET p == get_parent_ref(path)
                IN  IF p.exc # "" THEN Raises(p.exc)
                    ELSE LET e == git_tree_find(get_reference_commit(p.ref),
                                                PySliceFrom(path, Len(p.ref) + 1))
                         IN  IF e.exc # "" THEN Raises(e.exc)
                             ELSE IF BitAnd(e.entry.filemode, S_IFDIR) = S_IFDIR
                                  THEN Returns(default_stat, {}, <<>>)
                             ELSE IF ObjType(e.entry.oid) = "missing" THEN Raises("KeyError")
                             ELSE IF ObjType(e.entry.oid) # "blob" THEN Raises("AttributeError")
                             ELSE Returns(getattr_file(e.entry), {}, <<>>)

readdir(path) ==
  LET children == get_path_children(path)
  IN  IF children.exc # "" THEN Raises(children.exc)
      ELSE IF children.names # {} THEN Returns(NoStat, children.names, <<>>)
      ELSE IF path \in refs
           THEN Returns(NoStat, git_tree_to_direntries(get_reference_commit(path)), <<>>)
      ELSE LET p == get_parent_ref(path)
           IN  IF p.exc # "" THEN Raises(p.exc)
               ELSE LET e == git_tree_find(get_reference_commit(p.ref),
                                           PySliceFrom(path, Len(p.ref) + 1))
                    IN  IF e.exc # "" THEN Raises(e.exc)
                        ELSE IF BitAnd(e.entry.filemode, S_IFDIR) = S_IFDIR
                             THEN IF ObjType(e.entry.oid) = "missing" THEN Raises("KeyError")
                                  ELSE IF ObjType(e.entry.oid) # "tree" THEN Raises("TypeError")
                                  ELSE Returns(NoStat, git_tree_to_direntries(e.entry.oid), <<>>)
                        ELSE Returns(NoStat, {}, <<>>)

\* flags & os.O_RDONLY != os.O_RDONLY is (flags & os.O_RDONLY) != os.O_RDONLY
open(path, flags) ==
  IF Hidden(path) THEN Raises("ENOENT")
  ELSE IF BitAnd(flags, O_RDONLY) # O_RDONLY THEN Raises("EACCES")
  ELSE Returns(NoStat, {}, <<>>)

\* variant: the end of the slice is size, not offset + size
read_data_end_is_size(data, size, offset) ==
  IF offset = 0 /\ Len(data) <= size THEN data
  ELSE PySlice(data, offset, size)

\* the last four lines of read
read_data(data, size, offset) ==
  IF offset = 0 /\ Len(data) <= size THEN data
  ELSE PySlice(data, offset, offset + size)

read(path, size, offset) ==
  IF Hidden(path) THEN Raises("ENOENT")
  ELSE LET p == get_parent_ref(path)
       IN  IF p.exc # "" THEN Raises(p.exc)
           ELSE LET e == git_tree_find(get_reference_commit(p.ref),
                                       PySliceFrom(path, Len(p.ref) + 1))
                IN  IF e.exc # "" THEN Raises(e.exc)
                    ELSE LET blob == to_object(e.entry)
                         IN  IF blob.exc # "" THEN Raises(blob.exc)
                             ELSE IF ObjType(blob.obj) # "blob" THEN Raises("AttributeError")
                             ELSE Returns(NoStat, {}, read_data(BlobData(blob.obj), size, offset))

(***************************************************************************)
(* The paths and flags the operations are called with.                     *)
(***************************************************************************)
RECURSIVE JoinSegs(_)
JoinSegs(segs) ==
  IF Len(segs) = 1 THEN segs[1] ELSE segs[1] \o <<"/">> \o JoinSegs(Tail(segs))

RelPaths ==
  { JoinSegs(segs) : segs \in UNION {[1..n -> {<<"f">>, <<"d">>}] : n \in 1..MaxDepth} }
    \cup {<<"s">>, <<"d", "/", "d", "/", "s">>, <<"d", "/", ".", "g">>}

Prefixes(s) == {SubSeq(s, 1, k) : k \in 1..Len(s)}

\* the dispatch layer passes absolute paths without a trailing separator
Paths ==
  { p \in UNION { Prefixes(PySliceFrom(q, 4) \o <<"/">> \o rel) : q \in RefUniverse, rel \in RelPaths }
           \cup {<<"/", ".", "g">>, <<"/", ".", "g", "/", "f">>, <<"/", "t">>} :
      p = <<"/">> \/ p[Len(p)] # "/" }

\* O_RDONLY, O_WRONLY, O_RDWR
OpenFlags == {0, 1, 2}

(***************************************************************************)
(* The state machine: the dispatch loop takes one request at a time,       *)
(* calls its handler and replies.                                          *)
(***************************************************************************)
NoArgs == [path |-> <<>>, flags |-> 0, size |-> 0, offset |-> 0]

Init ==
  /\ \E S \in SUBSET RefUniverse : references \in [S -> RootTrees]
  /\ repo_stat \in TemplateStats
  /\ op = "idle"
  /\ args = NoArgs
  /\ result = Raises("")

Getattr ==
  /\ op = "idle"
  /\ \E path \in Paths :
       /\ op' = "getattr"
       /\ args' = [NoArgs EXCEPT !.path = path]
       /\ result' = getattr(path)
  /\ UNCHANGED <<references, repo_stat>>

Readdir ==
  /\ op = "idle"
  /\ \E path \in Paths :
       /\ op' = "readdir"
       /\ args' = [NoArgs EXCEPT !.path = path]
       /\ result' = readdir(path)
  /\ UNCHANGED <<references, repo_stat>>

Open ==
  /\ op = "idle"
  /\ \E path \in Paths, flags \in OpenFlags :
       /\ op' = "open"
       /\ args' = [NoArgs EXCEPT !.path = path, !.flags = flags]
       /\ result' = open(path, flags)
  /\ UNCHANGED <<references, repo_stat>>

Read ==
  /\ op = "idle"
  /\ \E path \in Paths, size \in 0..MaxSize, offset \in 0..MaxOffset :
       /\ op' = "read"
       /\ args' = [NoArgs EXCEPT !.path = path, !.size = size, !.offset = offset]
       /\ result' = read(path, size, offset)
  /\ UNCHANGED <<references, repo_stat>>

GetParentRef ==
  /\ op = "idle"
  /\ \E path \in Paths :
       /\ op' = "get_parent_ref"
       /\ args' = [NoArgs EXCEPT !.path = path]
       /\ result' = LET p == get_parent_ref(path)
                    IN  IF p.exc # "" THEN Raises(p.exc) ELSE Returns(NoStat, {}, p.ref)
  /\ UNCHANGED <<references, repo_stat>>

GetPathChildren ==
  /\ op = "idle"
  /\ \E path \in Paths :
       /\ op' = "get_path_children"
       /\ args' = [NoArgs EXCEPT !.path = path]
       /\ result' = LET c == get_path_children(path)
                    IN  IF c.exc # "" THEN Raises(c.exc) ELSE Returns(NoStat, c.names, <<>>)
  /\ UNCHANGED <<references, repo_stat>>

Reply ==
  /\ op # "idle"
  /\ op' = "idle"
  /\ args' = NoArgs
  /\ result' = Raises("")
  /\ UNCHANGED <<references, repo_stat>>

Next ==
  \/ Getattr
  \/ Readdir
  \/ Open
  \/ Read
  \/ GetParentRef
  \/ GetPathChildren
  \/ Reply

Spec == Init /\ [][Next]_vars


(***************************************************************************)
(* What the properties are stated with: the repository read directly,      *)
(* and paths taken segment by segment.                                     *)
(***************************************************************************)
StoredRefs == { [i \in 1..(Len(q) - 4) |-> q[i + 4]] : q \in DOMAIN references }

RootOf(r) == references[Q(r)]

\* path is r, a "/", and at least nothing more
IsBelow(path, r) ==
  /\ Len(path) > Len(r)
  /\ \A i \in 1..Len(r) : path[i] = r[i]
  /\ path[Len(r) + 1] = "/"

\* some reference name begins with the characters of path
IsPrefixOfSomeRef(path) ==
  \E s \in StoredRefs :
    Len(path) <= Len(s) /\ \A i \in 1..Len(path) : s[i] = path[i]

Owners(path) == {r \in StoredRefs : IsBelow(path, r)}

RelOf(path, r) == [i \in 1..(Len(path) - Len(r) - 1) |-> path[Len(r) + 1 + i]]

\* the segments of a relative path
RECURSIVE Segments(_)
Segments(s) ==
  IF \A i \in 1..Len(s) : s[i] # "/" THEN <<s>>
  ELSE LET i == CHOOSE k \in 1..Len(s) : s[k] = "/" /\ \A j \in 1..(k - 1) : s[j] # "/"
       IN  <<[j \in 1..(i - 1) |-> s[j]]>> \o Segments([j \in 1..(Len(s) - i) |-> s[i + j]])

NoEntry == Entry(0, "")

\* the entry a list of segments leads to in a tree, NoEntry when a segment
\* is missing or a segment before the last is not a tree
RECURSIVE Lookup(_, _)
Lookup(t, segs) ==
  IF t \notin TreeIds \/ segs[1] \notin DOMAIN TreeEntries(t) THEN NoEntry
  ELSE IF Len(segs) = 1 THEN TreeEntries(t)[segs[1]]
  ELSE Lookup(TreeEntries(t)[segs[1]].oid, Tail(segs))

EntryAt(path, r) == Lookup(RootOf(r), Segments(RelOf(path, r)))

IsFileEntry(e) == e.oid \in BlobIds

Bit(m, i) == (m \div (2 ^ i)) % 2

\* the path is a reference or a directory above one, by whole segments
IsNamespaceNode(path) ==
  \/ path \in StoredRefs
  \/ \E r \in StoredRefs : IsBelow(r, path)
  \/ path = <<"/">> /\ StoredRefs # {}

\* the segment of r that follows the directory path
NextSegment(r, path) ==
  IF path = <<"/">> THEN Segments(r)[2] ELSE Segments(RelOf(r, path))[1]

RefsUnder(path) ==
  IF path = <<"/">> THEN StoredRefs ELSE {r \in StoredRefs : IsBelow(r, path)}

JoinChild(path, n) == IF path = <<"/">> THEN path \o n ELSE path \o <<"/">> \o n

(***************************************************************************)
(* C1: open on a non-hidden path fails with EACCES when the flags ask for  *)
(* write-only or read-write access and succeeds when they ask for          *)
(* read-only access.                                                       *)
(***************************************************************************)
C1_OpenRejectsWriteAccess ==
  (op = "open" /\ ~Hidden(args.path)) =>
    IF args.flags % 4 = 0 THEN result.err = "" ELSE result.err = "EACCES"

(***************************************************************************)
(* C2: below a reference, getattr, readdir and read fail with ENOENT and   *)
(* nothing else when a segment of the relative path is missing or a        *)
(* segment before the last is a file.                                      *)
(***************************************************************************)
C2_ResolutionFailureIsNotFound ==
  (/\ op \in {"getattr", "readdir", "read"}
   /\ \E r \in StoredRefs : Owners(args.path) = {r} /\ EntryAt(args.path, r) = NoEntry)
    => result.err = "ENOENT"

(***************************************************************************)
(* C3: read of a file entry with content C of length L returns             *)
(* C[offset : min(offset + size, L)], empty when offset >= L.              *)
(***************************************************************************)
C3_ReadReturnsClippedRange ==
  (op = "read" /\ ~Hidden(args.path)) =>
    \A r \in StoredRefs :
      (Owners(args.path) = {r} /\ IsFileEntry(EntryAt(args.path, r))) =>
        LET C   == BlobData(EntryAt(args.path, r).oid)
            end == IF args.offset + args.size < Len(C) THEN args.offset + args.size ELSE Len(C)
            n   == IF end > args.offset THEN end - args.offset ELSE 0
        IN  /\ result.err = ""
            /\ Len(result.data) = n
            /\ \A k \in 1..n : result.data[k] = C[args.offset + k]

C3_Witness_TailOfBlob ==
  /\ op = "read"
  /\ result.err = ""
  /\ args.offset > 0
  /\ args.size > Len(result.data)
  /\ result.data # <<>>

(***************************************************************************)
(* C4 as stated: getattr of a file entry reports the blob's length and     *)
(* the entry's stored mode unchanged.                                      *)
(***************************************************************************)
C4_FileModeVerbatim ==
  (op = "getattr" /\ ~Hidden(args.path) /\ ~IsPrefixOfSomeRef(args.path)) =>
    \A r \in StoredRefs :
      (Owners(args.path) = {r} /\ IsFileEntry(EntryAt(args.path, r))) =>
        /\ result.err = ""
        /\ result.stat.st_size = Len(BlobData(EntryAt(args.path, r).oid))
        /\ result.stat.st_mode = EntryAt(args.path, r).filemode

(***************************************************************************)
(* C4 amended: getattr of a file entry reports the blob's length and the   *)
(* entry's stored mode with the three write bits cleared and every other   *)
(* bit kept.                                                               *)
(***************************************************************************)
C4_FileModeWithoutWriteBits ==
  (op = "getattr" /\ ~Hidden(args.path) /\ ~IsPrefixOfSomeRef(args.path)) =>
    \A r \in StoredRefs :
      (Owners(args.path) = {r} /\ IsFileEntry(EntryAt(args.path, r))) =>
        /\ result.err = ""
        /\ result.stat.st_size = Len(BlobData(EntryAt(args.path, r).oid))
        /\ \A i \in 0..16 :
             Bit(result.stat.st_mode, i) =
               IF i \in {1, 4, 7} THEN 0 ELSE Bit(EntryAt(args.path, r).filemode, i)

C4_Witness_ExecutableFile ==
  /\ op = "getattr"
  /\ result.err = ""
  /\ result.stat.st_size = 1
  /\ Bit(result.stat.st_mode, 15) = 1
  /\ Bit(result.stat.st_mode, 6) = 1

(***************************************************************************)
(* C5: every record getattr returns has the write bits 0222 cleared and    *)
(* inode number 0.                                                         *)
(***************************************************************************)
C5_NoWriteBitsInodeZero ==
  (op = "getattr" /\ result.err = "") =>
    /\ \A i \in {1, 4, 7} : Bit(result.stat.st_mode, i) = 0
    /\ result.stat.st_ino = 0

C5_Witness_WritableFileEntry ==
  /\ op = "getattr"
  /\ result.err = ""
  /\ \E r \in StoredRefs :
       /\ Owners(args.path) = {r}
       /\ IsFileEntry(EntryAt(args.path, r))
       /\ Bit(EntryAt(args.path, r).filemode, 7) = 1
  /\ Bit(repo_stat.st_mode, 4) = 1
  /\ repo_stat.st_ino # 0

(***************************************************************************)
(* C6: readdir of a reference with no reference beneath it returns the     *)
(* names of its root tree, whatever other references there are.            *)
(***************************************************************************)
C6_ReferenceListsRootTree ==
  (/\ op = "readdir"
   /\ args.path \in StoredRefs
   /\ \A s \in StoredRefs : ~IsBelow(s, args.path))
    => /\ result.err = ""
       /\ result.names = DOMAIN TreeEntries(RootOf(args.path))

(***************************************************************************)
(* C7: for the root or a directory above a reference, get_path_children    *)
(* (and readdir) return the next segments of the references under it and   *)
(* nothing else.                                                           *)
(***************************************************************************)
C7_ChildrenAreNextSegments ==
  (/\ op \in {"get_path_children", "readdir"}
   /\ RefsUnder(args.path) # {})
    => /\ result.err = ""
       /\ result.names = {NextSegment(r, args.path) : r \in RefsUnder(args.path)}

(***************************************************************************)
(* C8: getattr reports a directory for every reference and every           *)
(* directory above one, and ENOENT for every non-hidden path that is       *)
(* neither such a node nor an entry of a reference's snapshot.             *)
(***************************************************************************)
C8_NamespaceBySegments ==
  (op = "getattr" /\ ~Hidden(args.path)) =>
    /\ IsNamespaceNode(args.path) =>
         (result.err = "" /\ BitAnd(result.stat.st_mode, S_IFDIR) = S_IFDIR)
    /\ (/\ ~IsNamespaceNode(args.path)
        /\ \A r \in Owners(args.path) : EntryAt(args.path, r) = NoEntry)
         => result.err = "ENOENT"

(***************************************************************************)
(* C9: get_parent_ref returns r exactly when r is the only reference with  *)
(* path starting with r + "/", and fails with ENOENT when none or several  *)
(* match.                                                                  *)
(***************************************************************************)
C9_OwningReferenceIsUnique ==
  op = "get_parent_ref" =>
    /\ \A r \in StoredRefs :
         (result.err = "" /\ result.data = r) <=> Owners(args.path) = {r}
    /\ (\A r \in StoredRefs : Owners(args.path) # {r}) => result.err = "ENOENT"

C9_Witness_SiblingWithSamePrefix ==
  /\ op = "get_parent_ref"
  /\ result.err = ""
  /\ \E s \in StoredRefs :
       /\ s # result.data
       /\ \A i \in 1..Len(s) : args.path[i] = s[i]

(***************************************************************************)
(* C10: every name readdir lists for a path is a child that getattr        *)
(* finds.                                                                  *)
(***************************************************************************)
C10_ListedNamesHaveAttributes ==
  (op = "readdir" /\ result.err = "") =>
    \A n \in result.names : getattr(JoinChild(args.path, n)).err = ""

====
